---- MODULE Spec2Model ----
(***************************************************************************)
(* A model of the ESP32 patient-monitor simulator of src/src/main.cpp:     *)
(* the SimpleFIFO ring buffer, the timer interrupt TimerHandler0 that      *)
(* fills it, the debounced buttons and the main loop that drains it.       *)
(*                                                                         *)
(* Execution contexts.  TimerHandler0 is an interrupt service routine: it  *)
(* runs to completion and may start between any two memory accesses of     *)
(* the main context.  The main context (loop) never preempts the ISR.      *)
(***************************************************************************)
EXTENDS Integers, Sequences, FiniteSets

(***************************************************************************)
(* Bounds of the model.                                                    *)
(***************************************************************************)
\* Capacity of the FIFO.  The program sets 512 (main.cpp:35); the model
\* runs the same code on a small ring so that full and wrap-around happen.
maxSize == 4
\* Calls made by the caller of the sequential queue specification.
MaxCalls == 11
\* Enqueue attempts the interrupt makes in the concurrent specification.
MaxSamples == 6
\* Last value of millis() the debounce specification reaches.
MaxTime == 160

(***************************************************************************)
(* Program constants.                                                      *)
(***************************************************************************)
debounceDelay == 50

LOW == FALSE
HIGH == TRUE

EKG ==
  << 65, 65, 65, 65, 70, 76, 74, 70, 65, 63, 65, 65, 65, 65, 48, 230,
     40, 65, 65, 65, 74, 90, 100, 102, 100, 95, 80, 70, 65, 65, 65, 65 >>
ARY ==
  << 65, 70, 67, 61, 70, 72, 74, 76, 70, 68, 67, 65, 63, 55, 48, 10,
     15, 65, 67, 70, 74, 80, 100, 102, 100, 95, 80, 70, 65, 65, 65, 65 >>
deadPoints ==
  << 65, 65, 65, 65, 65, 65, 65, 65, 65, 65, 65, 65, 65, 65, 65, 65,
     65, 65, 65, 65, 65, 65, 65, 65, 65, 65, 65, 65, 65, 65, 65, 65 >>

\* sizeof(EKG): the tables hold uint8_t, so the size is the element count.
sizeofEKG == Len(EKG)

\* C arrays are indexed from 0, TLA+ sequences from 1.
At(table, i) == table[i + 1]

(***************************************************************************)
(* State.                                                                  *)
(***************************************************************************)
VARIABLES
  \* SimpleFIFO valueFifo
  buffer, frontIndex, rearIndex, itemCount,
  \* statics of TimerHandler0
  xbyte, index,
  \* globals written by loop(), and the results of its three analogRead
  \* calls
  amp, bpm, delayMillis, adc,
  \* mode flags
  isAlive, isEKG,
  \* debounce state of ARY_SWITCH_PIN and of KLL_SWITCH_PIN
  buttonState, lastButtonState, lastDebounceTime,
  buttonStateKLL, lastButtonStateKLL, lastDebounceTimeKLL,
  \* millis()
  now,
  \* the main context: its position in loop(), the local val of loop() and
  \* the register that holds a loaded itemCount
  pc, val, reg,
  \* observations (no program state): the samples whose enqueue returned
  \* true, the samples dequeue returned, the samples enqueue refused, the
  \* last call on the queue with its result, the last notifyClients argument
  accepted, delivered, rejected, call, notified,
  \* the number of calls the caller of SpecQueue has made
  nCalls,
  \* observations of the interrupt: what the last tick did, and whether
  \* each of the latest ticks that read the same divisor attempted an enqueue
  tick, hist,
  \* observations of the ARY tracker: see the debounce section
  run

queueVars == << buffer, frontIndex, rearIndex, itemCount >>
prodVars  == << xbyte, index >>
tuneVars  == << amp, bpm, delayMillis, adc >>
flagVars  == << isAlive, isEKG >>
aryVars   == << buttonState, lastButtonState, lastDebounceTime >>
kllVars   == << buttonStateKLL, lastButtonStateKLL, lastDebounceTimeKLL >>
loopVars  == << pc, val, reg >>
obsQueue  == << accepted, delivered, rejected, call, notified, nCalls >>
obsTick   == << tick, hist >>

vars == << queueVars, prodVars, tuneVars, flagVars, aryVars, kllVars, now,
           loopVars, obsQueue, obsTick, run >>

NoCall == [op |-> "none", arg |-> 0, ret |-> FALSE]
\* tick.odd flips at every tick; tick.divisor is the delayMillis it read;
\* tick.skipped counts the ticks since the latest enqueue attempt (or since
\* the start), up to one more than the largest divisor.
NoTick == [odd |-> FALSE, attempt |-> FALSE, divisor |-> 0, skipped |-> 0]

\* Before loop() has read the sticks; read says whether it has.
NoReading == [read |-> FALSE, amp |-> 0, bpm |-> 0, skip |-> 0]

\* The run of equal readings the ARY tracker is polling: its level, the
\* time of its first poll, whether a polled change of the reading started
\* it, the stable state when it started, the stable-state changes and the
\* flag inversions made during it, the polled changes of the reading since
\* the run during which the stable state last changed (counted up to 3),
\* and whether the latest action was a poll.  Before the first poll it is the run the initial
\* lastButtonState and lastDebounceTime describe.
NoRun == [level |-> LOW, t0 |-> 0, edge |-> FALSE, stableAtT0 |-> LOW,
          accepts |-> 0, toggles |-> 0, flips |-> 0, polled |-> FALSE]

\* The state after static initialisation and the constructor
\* (main.cpp:44, 83-100, 113, 120).  valueFifo is a global, so its buffer is
\* zero-initialised; amp and bpm are zero-initialised globals too.
InitProgram ==
  /\ buffer = [i \in 0 .. maxSize - 1 |-> 0]
  /\ frontIndex = 0 /\ rearIndex = 0 /\ itemCount = 0
  /\ xbyte = 0 /\ index = 0
  /\ amp = 0 /\ bpm = 0 /\ delayMillis = 9
  /\ adc = NoReading
  /\ isAlive = TRUE /\ isEKG = TRUE
  /\ buttonState = FALSE /\ lastButtonState = LOW /\ lastDebounceTime = 0
  /\ buttonStateKLL = FALSE /\ lastButtonStateKLL = LOW
  /\ lastDebounceTimeKLL = 0
  /\ now = 0
  /\ pc = "controls" /\ val = 0 /\ reg = 0
  /\ accepted = << >> /\ delivered = << >> /\ rejected = << >>
  /\ call = NoCall /\ notified = 0 /\ nCalls = 0
  /\ tick = NoTick /\ hist = << >>
  /\ run = NoRun

(***************************************************************************)
(* SimpleFIFO (main.cpp:41-80).                                            *)
(***************************************************************************)
\* The guards take the value of itemCount the caller has loaded.
enqueueGuard_le(count) == count <= maxSize
\* main.cpp:48
enqueueGuard(count) == count < maxSize

dequeueGuard_ge(count) == count >= 0
\* main.cpp:60
dequeueGuard(count) == count > 0

advance_stuck(i) == i
\* main.cpp:51 and 63: the cursor's successor on the ring
advance(i) == (i + 1) % maxSize

\* bool enqueue(uint8_t data), run without interruption (as it is inside
\* the ISR, and in a caller that is not preempted).
enqueue(data) ==
  IF enqueueGuard(itemCount)
    THEN /\ buffer' = [buffer EXCEPT ![rearIndex] = data]
         /\ rearIndex' = advance(rearIndex)
         /\ itemCount' = itemCount + 1
         /\ call' = [op |-> "enqueue", arg |-> data, ret |-> TRUE]
         /\ UNCHANGED frontIndex
    ELSE /\ call' = [op |-> "enqueue", arg |-> data, ret |-> FALSE]
         /\ UNCHANGED << buffer, rearIndex, itemCount, frontIndex >>

\* bool dequeue(uint8_t &data) with data bound to val, run without
\* interruption.
dequeue ==
  IF dequeueGuard(itemCount)
    THEN /\ val' = buffer[frontIndex]
         /\ frontIndex' = advance(frontIndex)
         /\ itemCount' = itemCount - 1
         /\ call' = [op |-> "dequeue", arg |-> 0, ret |-> TRUE]
    ELSE /\ call' = [op |-> "dequeue", arg |-> 0, ret |-> FALSE]
         /\ UNCHANGED << val, frontIndex, itemCount >>

isEmpty_whenNegative == itemCount < 0
\* main.cpp:70-73
isEmpty == itemCount = 0

(***************************************************************************)
(* SpecQueue: one caller makes enqueue and dequeue calls one after the     *)
(* other (no interrupt).  The caller offers either a fresh value, the      *)
(* ordinal of the enqueue call, or the repeated value 1.                   *)
(***************************************************************************)
nEnqueueCalls == Len(accepted) + Len(rejected)

\* What a call adds to the observations: the sample, to the accepted or
\* to the refused ones; the sample a dequeue returned.
observeEnqueue ==
  /\ accepted' = IF call'.ret THEN Append(accepted, call'.arg) ELSE accepted
  /\ rejected' = IF call'.ret THEN rejected ELSE Append(rejected, call'.arg)
observeDequeue ==
  delivered' = IF call'.ret THEN Append(delivered, val') ELSE delivered

CallEnqueue ==
  /\ nCalls < MaxCalls
  /\ \E data \in {nEnqueueCalls + 1, 1} : enqueue(data)
  /\ observeEnqueue
  /\ nCalls' = nCalls + 1
  /\ UNCHANGED << val, delivered, notified >>
  /\ UNCHANGED << prodVars, tuneVars, flagVars, aryVars, kllVars, now, pc,
                  reg, obsTick, run >>

CallDequeue ==
  /\ nCalls < MaxCalls
  /\ dequeue
  /\ observeDequeue
  /\ nCalls' = nCalls + 1
  /\ UNCHANGED << buffer, rearIndex, accepted, rejected, notified >>
  /\ UNCHANGED << prodVars, tuneVars, flagVars, aryVars, kllVars, now, pc,
                  reg, obsTick, run >>

NextQueue == CallEnqueue \/ CallDequeue

SpecQueue == InitProgram /\ [][NextQueue]_vars

IsPrefix(s, t) == Len(s) <= Len(t) /\ s = SubSeq(t, 1, Len(s))
Iota(n) == [i \in 1 .. n |-> i]
Last(s) == s[Len(s)]
\* This step is a call of enqueue, of dequeue.
EnqueueCalled == nCalls' = nCalls + 1 /\ call'.op = "enqueue"
DequeueCalled == nCalls' = nCalls + 1 /\ call'.op = "dequeue"

\* C3: for every sequence of enqueue and dequeue calls that do not
\* interleave, itemCount stays in [0, maxSize] after every call and the
\* values the successful dequeues returned are, in order, the values of the
\* accepted enqueues (the ones not yet returned are the itemCount newest).
C3_CountInRangeAndFifoOrder ==
  /\ itemCount \in 0 .. maxSize
  /\ IsPrefix(delivered, accepted)
  /\ itemCount = Len(accepted) - Len(delivered)
  /\ (call.op = "dequeue" /\ call.ret) => val = Last(delivered)

\* The ring has wrapped: more samples than its capacity went through it,
\* and an enqueue was refused on the way.
C3_Witness ==
  /\ Len(delivered) > maxSize
  /\ Len(rejected) > 0
  /\ call.op = "dequeue" /\ call.ret

\* C4: enqueue on a full queue (itemCount = maxSize) returns false and
\* leaves buffer, frontIndex, rearIndex and itemCount unchanged, so the
\* offered (newest) sample is the one dropped; when maxSize + 1 fresh
\* samples 1, 2, ... are offered to the empty queue the first maxSize are
\* accepted and the last refused, and the dequeues that follow return
\* 1 .. maxSize in order and then report empty.
C4_EnqueueOnFullRefused ==
  /\ [][(EnqueueCalled /\ itemCount = maxSize) =>
          /\ call'.ret = FALSE
          /\ rejected' = Append(rejected, call'.arg)
          /\ UNCHANGED << queueVars, accepted >>]_vars
  /\ [](delivered = << >> =>
          /\ nEnqueueCalls <= maxSize => rejected = << >>
          /\ nEnqueueCalls > maxSize => Len(accepted) = maxSize)
  /\ [](accepted = Iota(maxSize) /\ rejected = << maxSize + 1 >> =>
          /\ IsPrefix(delivered, Iota(maxSize))
          /\ (call.op = "dequeue" /\ ~call.ret) => delivered = Iota(maxSize))

\* The scenario of C4 has run to its end: 1 .. maxSize accepted,
\* maxSize + 1 refused, 1 .. maxSize dequeued, the next dequeue empty.
C4_Witness ==
  /\ accepted = Iota(maxSize)
  /\ rejected = << maxSize + 1 >>
  /\ delivered = Iota(maxSize)
  /\ call.op = "dequeue" /\ ~call.ret

\* C5: dequeue on an empty queue (itemCount = 0) returns false and leaves
\* buffer, frontIndex, rearIndex, itemCount and the caller's variable val
\* unchanged.
C5_DequeueOnEmptyRefused ==
  [][(DequeueCalled /\ itemCount = 0) =>
       /\ call'.ret = FALSE
       /\ UNCHANGED << queueVars, val, delivered >>]_vars

\* A dequeue found the queue empty after samples had gone through it; the
\* caller's variable still holds the sample dequeued last.
C5_Witness ==
  /\ call.op = "dequeue" /\ ~call.ret
  /\ itemCount = 0
  /\ Len(delivered) > 1
  /\ val = Last(delivered) /\ val # 0

(***************************************************************************)
(* The control surface (main.cpp:218-220).                                 *)
(***************************************************************************)
\* The largest reading of the 12-bit ADC, the in_max of the three maps.
adcMax == 4095

\* Readings of the 12-bit ADC that the specifications offer: both ends of
\* the range and one reading in between (it maps to the divisor 10).
AnalogReadings == {0, 105, adcMax}

map_noOffset(x, in_min, in_max, out_min, out_max) ==
  ((x - in_min) * (out_max - out_min)) \div (in_max - in_min)
\* Arduino's map(x, in_min, in_max, out_min, out_max), in long arithmetic
\* (the operands are never negative here, so / truncates as \div does).
map(x, in_min, in_max, out_min, out_max) ==
  ((x - in_min) * (out_max - out_min)) \div (in_max - in_min) + out_min

\* main.cpp:218: the amplitude in hundredths (the program stores
\* map(..) / 100.0 in the float amp).
ampPercent(a) == map(a, 0, adcMax, 10, 100)
\* main.cpp:219
rateOf(b) == map(b, 0, adcMax, 40, 220)
\* main.cpp:220
divisorOf(b) == map(b, 0, adcMax, 9, 48)

\* main.cpp:218-220 with the three analogRead results.
controls(a, b1, b2) ==
  /\ amp' = ampPercent(a)
  /\ bpm' = rateOf(b1)
  /\ delayMillis' = divisorOf(b2)
  /\ adc' = [read |-> TRUE, amp |-> a, bpm |-> b1, skip |-> b2]

(***************************************************************************)
(* TimerHandler0 (main.cpp:111-141), the interrupt service routine.        *)
(***************************************************************************)
nextXbyte_offByOne(x, n) == (x + 1) % (n + 1)
\* main.cpp:114
nextXbyte(x, n) == (x + 1) % n

selectTable_swapped ==
  IF isAlive THEN (IF isEKG THEN ARY ELSE EKG) ELSE deadPoints
\* main.cpp:124-138: the table the sample is taken from
selectTable ==
  IF isAlive THEN (IF isEKG THEN EKG ELSE ARY) ELSE deadPoints

\* The outcomes of the latest ticks that read the divisor n, at most n of
\* them, after a tick that did (attempt) or did not attempt an enqueue.
histAfter(n, attempt) ==
  LET h == Append(IF tick.divisor = n THEN hist ELSE << >>, attempt)
  IN  IF Len(h) > n THEN Tail(h) ELSE h

\* The largest divisor loop() writes.
largestDivisor == divisorOf(adcMax)

\* The ticks in a row without an enqueue attempt, after one more tick.
skippedAfter(attempt) ==
  IF attempt THEN 0
  ELSE IF tick.skipped > largestDivisor THEN tick.skipped
  ELSE tick.skipped + 1

nextIndex_heldOnFull(i) ==
  IF itemCount < maxSize THEN (i + 1) % sizeofEKG ELSE i
\* main.cpp:121
nextIndex(i) == (i + 1) % sizeofEKG

TimerHandler0_diesOnDrop ==
  LET x == nextXbyte(xbyte, delayMillis)
      i == nextIndex(index)
  IN  /\ xbyte' = x
      /\ IF x # 0
           THEN UNCHANGED << index, queueVars, call, accepted, isAlive >>
           ELSE /\ index' = i
                /\ enqueue(At(selectTable, i))
                /\ accepted' = IF call'.ret THEN Append(accepted, call'.arg)
                                            ELSE accepted
                /\ isAlive' = (isAlive /\ call'.ret)
      /\ tick' = [odd |-> ~tick.odd, attempt |-> (x = 0),
                  divisor |-> delayMillis, skipped |-> skippedAfter(x = 0)]
      /\ hist' = histAfter(delayMillis, x = 0)
      /\ UNCHANGED << tuneVars, isEKG, aryVars, kllVars, now, loopVars,
                      delivered, rejected, notified, nCalls, run >>
TimerHandler0 ==
  LET x == nextXbyte(xbyte, delayMillis)
      i == nextIndex(index)
  IN  /\ xbyte' = x
      /\ IF x # 0
           THEN UNCHANGED << index, queueVars, call, accepted >>
           ELSE /\ index' = i
                /\ enqueue(At(selectTable, i))
                /\ accepted' = IF call'.ret THEN Append(accepted, call'.arg)
                                            ELSE accepted
      /\ tick' = [odd |-> ~tick.odd, attempt |-> (x = 0),
                  divisor |-> delayMillis, skipped |-> skippedAfter(x = 0)]
      /\ hist' = histAfter(delayMillis, x = 0)
      /\ UNCHANGED << tuneVars, flagVars, aryVars, kllVars, now, loopVars,
                      delivered, rejected, notified, nCalls, run >>

\* This step is a tick.
Ticked == tick'.odd # tick.odd

(***************************************************************************)
(* SpecDecimate: the interrupt ticks while the main context rewrites the   *)
(* tunables between ticks (main.cpp:218-220); nothing drains the queue.    *)
(* The BPM stick moves, the amplitude stick rests at its upper end.        *)
(***************************************************************************)
Controls ==
  /\ \E b \in AnalogReadings : controls(4095, b, b)
  /\ UNCHANGED << queueVars, prodVars, flagVars, aryVars, kllVars, now,
                  loopVars, obsQueue, obsTick, run >>

NextDecimate == TimerHandler0 \/ Controls

SpecDecimate == InitProgram /\ [][NextDecimate]_vars

\* C10: while the ticks read the same divisor N = delayMillis, exactly one
\* of every N consecutive invocations of TimerHandler0 attempts an enqueue;
\* the others return without touching the queue or the table index.
C10_OneAttemptPerDivisorTicks ==
  /\ [](Len(hist) > 0 /\ Len(hist) = tick.divisor =>
          Cardinality({k \in 1 .. Len(hist) : hist[k]}) = 1)
  /\ [][Ticked /\ ~tick'.attempt => UNCHANGED << queueVars, index >>]_vars
  /\ [][Ticked /\ tick'.attempt =>
          call'.op = "enqueue" /\ index' = (index + 1) % sizeofEKG]_vars

\* 48 ticks in a row read the divisor 48, which the main loop wrote over
\* the initial 9, and the latest of them attempted an enqueue.
C10_Witness ==
  /\ tick.divisor = 48 /\ Len(hist) = 48
  /\ tick.attempt
  /\ index > 2

(***************************************************************************)
(* debounceAndToggle (main.cpp:152-179).                                   *)
(***************************************************************************)
windowElapsed_ge(t, since) == (t - since) >= debounceDelay
\* main.cpp:163.  The subtraction is in unsigned long; millis() has not
\* wrapped within MaxTime, so t >= since and the difference is exact.
windowElapsed(t, since) == (t - since) > debounceDelay

timerAfter_keep(reading, last, since, t) == since
\* main.cpp:157-160: the stability timer after the reading is compared
\* with the previous one
timerAfter(reading, last, since, t) == IF reading # last THEN t ELSE since

differs_always(reading, state) == TRUE
\* main.cpp:166
differs(reading, state) == reading # state

debounceAndToggle_dualEdge(reading, state, last, since, flag, t1, t2) ==
  LET since1 == timerAfter(reading, last, since, t1)
      accept == windowElapsed(t2, since1) /\ differs(reading, state)
  IN  [state |-> IF accept THEN reading ELSE state,
       last  |-> reading,
       since |-> since1,
       flag  |-> IF accept THEN ~flag ELSE flag]
\* One call, as a function of the reading, of the tracker's three
\* variables (state, last, since), of the flag behind toggleVariable and of
\* the values t1, t2 of the two millis() calls (main.cpp:159, 163).
debounceAndToggle(reading, state, last, since, flag, t1, t2) ==
  LET since1 == timerAfter(reading, last, since, t1)
      accept == windowElapsed(t2, since1) /\ differs(reading, state)
  IN  [state |-> IF accept THEN reading ELSE state,
       last  |-> reading,
       since |-> since1,
       flag  |-> IF accept /\ reading = LOW THEN ~flag ELSE flag]

Min(a, b) == IF a < b THEN a ELSE b

\* The run of equal readings after a poll of the ARY pin that read
\* `reading` at time t1, given the stable state and the flag after it (the
\* observation SpecDebounce adds to a poll).
runAfter(reading, t1, stateAfter, flagAfter) ==
  LET r == IF reading # lastButtonState
             THEN [level |-> reading, t0 |-> t1, edge |-> TRUE,
                   stableAtT0 |-> buttonState, accepts |-> 0, toggles |-> 0,
                   flips |-> IF run.accepts > 0 THEN 1
                                                ELSE Min(run.flips + 1, 3),
                   polled |-> TRUE]
             ELSE [run EXCEPT !.polled = TRUE]
      a == stateAfter # buttonState
  IN  [r EXCEPT !.accepts = IF a THEN @ + 1 ELSE @,
                !.toggles = IF flagAfter # isEKG THEN @ + 1 ELSE @]

\* main.cpp:231: debounceAndToggle(ARY_SWITCH_PIN, buttonState,
\* lastButtonState, lastDebounceTime, &isEKG); the pin reads `reading` and
\* d milliseconds pass between the two millis() calls.  A specification
\* that uses it says where the main context stands afterwards (pc) and
\* what it observes of the tracker (run).
PollARY(reading, d) ==
  LET r == debounceAndToggle(reading, buttonState, lastButtonState,
                             lastDebounceTime, isEKG, now, now + d)
  IN  /\ now + d <= MaxTime
      /\ buttonState' = r.state
      /\ lastButtonState' = r.last
      /\ lastDebounceTime' = r.since
      /\ isEKG' = r.flag
      /\ now' = now + d
      /\ UNCHANGED << queueVars, prodVars, tuneVars, isAlive, kllVars,
                      val, reg, obsQueue, obsTick >>

\* main.cpp:233: the same call for KLL_SWITCH_PIN and isAlive.
PollKLL(reading, d) ==
  LET r == debounceAndToggle(reading, buttonStateKLL, lastButtonStateKLL,
                             lastDebounceTimeKLL, isAlive, now, now + d)
  IN  /\ now + d <= MaxTime
      /\ buttonStateKLL' = r.state
      /\ lastButtonStateKLL' = r.last
      /\ lastDebounceTimeKLL' = r.since
      /\ isAlive' = r.flag
      /\ now' = now + d
      /\ UNCHANGED << queueVars, prodVars, tuneVars, isEKG, aryVars,
                      val, reg, obsQueue, obsTick >>

\* dt milliseconds pass between two calls.
Elapse(dt) ==
  /\ now + dt <= MaxTime
  /\ now' = now + dt
  /\ UNCHANGED << queueVars, prodVars, tuneVars, flagVars, aryVars, kllVars,
                  loopVars, obsQueue, obsTick >>

(***************************************************************************)
(* SpecDebounce: the ARY tracker is polled with any readings, at times     *)
(* one millisecond or one debounce delay apart; a poll takes no time or    *)
(* one millisecond.                                                        *)
(***************************************************************************)
PollButton ==
  \E reading \in {LOW, HIGH}, d \in {0, 1} :
    /\ PollARY(reading, d)
    /\ run' = runAfter(reading, now, buttonState', isEKG')
    /\ UNCHANGED pc
Wait ==
  \E dt \in {1, debounceDelay} :
    /\ Elapse(dt)
    /\ run' = [run EXCEPT !.polled = FALSE]

NextDebounce == PollButton \/ Wait

SpecDebounce == InitProgram /\ [][NextDebounce]_vars

\* The tracker is in a press: the polled reading went from HIGH to LOW and
\* has read LOW in every poll since.
Press == run.edge /\ run.level = LOW
\* The time from the first poll of the run to the latest poll.
heldFor == now - run.t0

\* C6 as stated: a press that is held inverts the flag exactly once, at the
\* poll that accepts LOW, whatever the stable state was when it began.
C6_PressTogglesExactlyOnce ==
  /\ Press => run.toggles <= 1
  /\ (Press /\ run.polled /\ heldFor > debounceDelay) => run.toggles = 1

\* C6, amended: a press that is held inverts the flag at most once, however
\* long it is held; exactly once, at the poll that accepts LOW as the
\* stable state, when the stable state was HIGH as the reading went LOW,
\* and not at all when the stable state was still LOW (a release shorter
\* than the debounce window, or a press within the window after start-up).
C6_PressTogglesAtMostOnce ==
  Press =>
    /\ run.toggles <= 1
    /\ run.toggles = run.accepts
    /\ run.toggles = 1 => buttonState = LOW
    /\ (run.polled /\ heldFor > debounceDelay) =>
         run.toggles = IF run.stableAtT0 = HIGH THEN 1 ELSE 0

\* A press from stable HIGH, held for more than two debounce windows, has
\* inverted the flag once.
C6_Witness ==
  /\ Press /\ run.stableAtT0 = HIGH /\ run.polled
  /\ heldFor > 2 * debounceDelay
  /\ run.toggles = 1 /\ isEKG = FALSE

\* C7 as stated: the reading went from HIGH to LOW at the poll at t0, with
\* the stable state HIGH, and stayed LOW; at the first poll with at least
\* debounceDelay elapsed since t0 (exactly t0 + 50 included) the stable
\* state is LOW and the flag has been inverted.
C7_AcceptedAtLeastDelay ==
  (Press /\ run.stableAtT0 = HIGH /\ run.polled /\ heldFor >= debounceDelay)
    => (buttonState = LOW /\ run.toggles = 1)

\* C7, amended: the stable state becomes LOW and the flag is inverted at
\* the first poll with MORE than debounceDelay (50) elapsed since t0; a
\* poll at t0 + 50 or earlier accepts nothing.
C7_AcceptedAfterDelay ==
  (Press /\ run.stableAtT0 = HIGH /\ run.polled) =>
    /\ heldFor > debounceDelay => (buttonState = LOW /\ run.toggles = 1)
    /\ heldFor <= debounceDelay => (buttonState = HIGH /\ run.toggles = 0)

\* The press was accepted at the poll 51 after it began.
C7_Witness ==
  /\ Press /\ run.stableAtT0 = HIGH /\ run.polled
  /\ heldFor = debounceDelay + 1
  /\ buttonState = LOW /\ run.toggles = 1

\* C8: when the polled reading settles at a level other than the stable
\* state and is held there for the debounce window (a poll finds more than
\* debounceDelay elapsed since the reading last changed), the stable state
\* is set to that level exactly once, however many changes of the reading
\* were polled before; while the reading has not been held that long no
\* poll changes the stable state.
C8_AcceptedOncePerSettledLevel ==
  /\ run.accepts <= 1
  /\ run.accepts = 1 => (buttonState = run.level /\ run.stableAtT0 # run.level)
  /\ (run.polled /\ heldFor > debounceDelay /\ run.stableAtT0 # run.level)
       => run.accepts = 1
  /\ (run.polled /\ heldFor <= debounceDelay)
       => (run.accepts = 0 /\ buttonState = run.stableAtT0)

\* The level LOW was accepted after three polled changes of the reading
\* since the stable state last changed, and then held on.
C8_Witness ==
  /\ run.accepts = 1 /\ run.flips = 3 /\ run.level = LOW
  /\ run.polled /\ heldFor > debounceDelay + 1

(***************************************************************************)
(* SpecSelect: the interrupt ticks while the main context polls the two    *)
(* buttons (main.cpp:231, 233), whose accepted presses invert isEKG and    *)
(* isAlive; the divisor stays at its initial 9 and nothing drains the      *)
(* queue.  Time passes in two steps just longer than the debounce delay:  *)
(* the first lets the released buttons become stable, the second lets a    *)
(* press of each be accepted.                                              *)
(***************************************************************************)
PollMode ==
  /\ \E reading \in {LOW, HIGH} : PollARY(reading, 0)
  /\ UNCHANGED << pc, run >>
PollLife ==
  /\ \E reading \in {LOW, HIGH} : PollKLL(reading, 0)
  /\ UNCHANGED << pc, run >>
WaitWindow ==
  /\ now < 2 * (debounceDelay + 1)
  /\ Elapse(debounceDelay + 1)
  /\ UNCHANGED run

NextSelect == TimerHandler0 \/ PollMode \/ PollLife \/ WaitWindow

SpecSelect == InitProgram /\ [][NextSelect]_vars

\* The table the claim names for the flag values of a state.
ClaimedTable ==
  IF ~isAlive THEN deadPoints ELSE IF ~isEKG THEN ARY ELSE EKG

\* C9: on every tick that is not skipped the sample offered to the queue is
\* the entry at the (advanced) index of the table the flags select at that
\* tick: deadPoints whenever isAlive is false, ARY when isAlive is true and
\* isEKG false, EKG otherwise; the index advances by one modulo the table
\* length at each such tick and at no other step, so with the flags held
\* constant the offered samples follow the table in cyclic order.
C9_SampleFromSelectedTable ==
  /\ [][Ticked /\ tick'.attempt =>
          /\ index' = (index + 1) % sizeofEKG
          /\ call' = [op |-> "enqueue", arg |-> At(ClaimedTable, index'),
                      ret |-> (itemCount < maxSize)]
          /\ call'.ret => buffer'[rearIndex] = At(ClaimedTable, index')
          /\ UNCHANGED flagVars]_vars
  /\ [][index' # index => (Ticked /\ tick'.attempt)]_vars

\* Ticks offered samples of the alternate table, which differs from the
\* primary one at index 1, after the index had gone round the table.
C9_Witness ==
  /\ isAlive /\ ~isEKG /\ tick.attempt
  /\ index = 1 /\ call.arg = 70 /\ call.op = "enqueue"
  /\ itemCount = maxSize /\ ~call.ret

(***************************************************************************)
(* loop() (main.cpp:215-234), one memory access of the shared queue at a   *)
(* time.  pc names the statement the main context executes next.  The      *)
(* queue's fields are plain ints, neither volatile nor atomic, and the two *)
(* contexts race on itemCount: the build may keep a loaded itemCount in a  *)
(* register (reg) and use it again, or load it again, wherever the source  *)
(* reads it.                                                               *)
(***************************************************************************)
\* The values a read of itemCount may yield at a point where the register
\* may still hold an earlier load.
loadedCount == {itemCount, reg}

\* notifyClients(val * amp): uint8_t times the float factor, converted back
\* to uint8_t (truncated); amp is held in hundredths.
scale(v, a) == (v * a) \div 100

\* main.cpp:218-220
LoopControls ==
  /\ pc = "controls"
  /\ \E b \in {0} : controls(4095, b, b)
  /\ pc' = "isEmpty"
  /\ UNCHANGED << queueVars, prodVars, flagVars, aryVars, kllVars, now, val,
                  reg, obsQueue, obsTick, run >>

\* main.cpp:222: if (!valueFifo.isEmpty())
LoopIsEmpty ==
  /\ pc = "isEmpty"
  /\ reg' = itemCount
  /\ pc' = IF isEmpty THEN "pollARY" ELSE "deqGuard"
  /\ UNCHANGED << queueVars, prodVars, tuneVars, flagVars, aryVars, kllVars,
                  now, val, obsQueue, obsTick, run >>

\* main.cpp:225, 60: if (itemCount > 0), and main.cpp:67 when it is not
LoopDequeueGuard ==
  /\ pc = "deqGuard"
  /\ \E count \in loadedCount :
       /\ reg' = count
       /\ IF dequeueGuard(count)
            THEN pc' = "deqRead" /\ UNCHANGED call
            ELSE /\ pc' = "pollARY"
                 /\ call' = [op |-> "dequeue", arg |-> 0, ret |-> FALSE]
  /\ UNCHANGED << queueVars, prodVars, tuneVars, flagVars, aryVars, kllVars,
                  now, val, accepted, delivered, rejected, notified, nCalls,
                  obsTick, run >>

\* main.cpp:62: data = buffer[frontIndex]
LoopDequeueRead ==
  /\ pc = "deqRead"
  /\ val' = buffer[frontIndex]
  /\ pc' = "deqFront"
  /\ UNCHANGED << queueVars, prodVars, tuneVars, flagVars, aryVars, kllVars,
                  now, reg, obsQueue, obsTick, run >>

\* main.cpp:63: frontIndex = (frontIndex + 1) % maxSize
LoopDequeueFront ==
  /\ pc = "deqFront"
  /\ frontIndex' = advance(frontIndex)
  /\ pc' = "deqLoad"
  /\ UNCHANGED << buffer, rearIndex, itemCount, prodVars, tuneVars, flagVars,
                  aryVars, kllVars, now, val, reg, obsQueue, obsTick, run >>

\* main.cpp:64: itemCount--, the load
LoopDequeueLoad ==
  /\ pc = "deqLoad"
  /\ \E count \in loadedCount : reg' = count
  /\ pc' = "deqStore"
  /\ UNCHANGED << queueVars, prodVars, tuneVars, flagVars, aryVars, kllVars,
                  now, val, obsQueue, obsTick, run >>

\* main.cpp:64-65: itemCount--, the store, and return true
LoopDequeueStore ==
  /\ pc = "deqStore"
  /\ itemCount' = reg - 1
  /\ call' = [op |-> "dequeue", arg |-> 0, ret |-> TRUE]
  /\ delivered' = Append(delivered, val)
  /\ pc' = "notify"
  /\ UNCHANGED << buffer, frontIndex, rearIndex, prodVars, tuneVars,
                  flagVars, aryVars, kllVars, now, val, reg, accepted,
                  rejected, notified, nCalls, obsTick, run >>

\* main.cpp:227: notifyClients(val * amp)
LoopNotify ==
  /\ pc = "notify"
  /\ notified' = scale(val, amp)
  /\ pc' = "pollARY"
  /\ UNCHANGED << queueVars, prodVars, tuneVars, flagVars, aryVars, kllVars,
                  now, val, reg, accepted, delivered, rejected, call, nCalls,
                  obsTick, run >>

\* main.cpp:231
LoopPollARY ==
  /\ pc = "pollARY"
  /\ \E reading \in {LOW, HIGH} : PollARY(reading, 0)
  /\ pc' = "pollKLL"
  /\ UNCHANGED run

\* main.cpp:233, the last statement of loop()
LoopPollKLL ==
  /\ pc = "pollKLL"
  /\ \E reading \in {LOW, HIGH} : PollKLL(reading, 0)
  /\ pc' = "controls"
  /\ UNCHANGED run

\* The timer interrupt preempts the main context wherever it stands.
Interrupt ==
  /\ Len(accepted) < MaxSamples
  /\ TimerHandler0

(***************************************************************************)
(* Spec: the interrupt and the main loop together, the sticks at rest at   *)
(* reading 0 (divisor 9) and 4095 (amplitude 1.00), the buttons read at    *)
(* any level, no time passing between polls.                               *)
(***************************************************************************)
Next ==
  \/ Interrupt
  \/ LoopControls
  \/ LoopIsEmpty
  \/ LoopDequeueGuard
  \/ LoopDequeueRead
  \/ LoopDequeueFront
  \/ LoopDequeueLoad
  \/ LoopDequeueStore
  \/ LoopNotify
  \/ LoopPollARY
  \/ LoopPollKLL

Spec == InitProgram /\ [][Next]_vars

\* The main context is between the two writes of dequeue that keep
\* frontIndex and itemCount in step.
InsideDequeue == pc \in {"deqLoad", "deqStore"}

\* C1: when a tick may preempt the main loop between any two accesses of
\* the queue's fields inside dequeue, itemCount in every reachable state
\* equals the accepted enqueues minus the successful dequeues, that is the
\* number of slots between frontIndex and rearIndex; no increment or
\* decrement is lost.
C1_CountNeverLost ==
  /\ itemCount = Len(accepted) - Len(delivered)
  /\ ~InsideDequeue =>
       IF itemCount = maxSize THEN rearIndex = frontIndex
       ELSE (rearIndex - frontIndex) % maxSize = itemCount

\* C2: under any interleaving of ticks with the main loop the samples the
\* loop dequeues are a prefix of the samples whose enqueue was accepted:
\* none overwritten before it is dequeued, none twice, none out of order.
C2_DeliveredPrefixOfAccepted == IsPrefix(delivered, accepted)

(***************************************************************************)
(* Claims about one iteration of loop().                                   *)
(***************************************************************************)
\* This step is a statement of the main context.
LoopStep == pc' # pc

\* The order of the statements of one iteration (main.cpp:218-233): the
\* positions the main context may move to from each position.
loopOrder ==
  [controls |-> {"isEmpty"},
   isEmpty  |-> {"deqGuard", "pollARY"},
   deqGuard |-> {"deqRead", "pollARY"},
   deqRead  |-> {"deqFront"},
   deqFront |-> {"deqLoad"},
   deqLoad  |-> {"deqStore"},
   deqStore |-> {"notify"},
   notify   |-> {"pollARY"},
   pollARY  |-> {"pollKLL"},
   pollKLL  |-> {"controls"}]

\* C11: each iteration of loop() removes at most one sample and never waits
\* for one.  If isEmpty() finds the queue empty the iteration goes on to
\* the buttons without a successful dequeue and without notifyClients; if
\* not, exactly one sample is removed, it is the oldest accepted sample not
\* yet removed, and notifyClients is called exactly once, with that sample
\* scaled by the current amp.
C11_IterationDrainsOldestScaled ==
  /\ [][LoopStep => pc' \in loopOrder[pc]]_vars
  /\ [][(pc = "isEmpty" /\ LoopStep) =>
          pc' = IF itemCount = 0 THEN "pollARY" ELSE "deqGuard"]_vars
  /\ [][(pc = "deqGuard" /\ LoopStep) => pc' = "deqRead"]_vars
  /\ [][delivered' # delivered =>
          /\ pc = "deqStore"
          /\ delivered' = Append(delivered, val)]_vars
  /\ [][notified' # notified => pc = "notify"]_vars
  /\ [][(pc = "notify" /\ LoopStep) => notified' = scale(val, amp)]_vars
  /\ [](pc = "notify" =>
          /\ Len(delivered) <= Len(accepted)
          /\ val = accepted[Len(delivered)])

(***************************************************************************)
(* The two contexts' accesses to the shared state.                         *)
(***************************************************************************)
\* main.cpp:50-52: the fields of the queue enqueue assigns
enqueueWrites == << buffer, rearIndex, itemCount >>
\* main.cpp:63-64: the fields of the queue dequeue assigns
dequeueWrites == << frontIndex, itemCount >>

\* C12: every mutable field of the queue (buffer, rearIndex, frontIndex,
\* itemCount) is written by one context only: a tick leaves unchanged
\* every field dequeue assigns, and a statement of the main loop leaves
\* unchanged every field enqueue assigns.
C12_OneWriterPerField ==
  /\ [][Ticked => UNCHANGED dequeueWrites]_vars
  /\ [][LoopStep => UNCHANGED enqueueWrites]_vars

\* C13: a tick, skipped or not, leaves isAlive, isEKG, delayMillis, amp,
\* bpm and the debounce state of both trackers unchanged (and the clock and
\* the main loop's val): it changes only the queue, xbyte and index.
\* isEKG changes only in a call of debounceAndToggle for the ARY button and
\* isAlive only in one for the KLL button.
C13_TickWritesQueueAndCountersOnly ==
  /\ [][Ticked => UNCHANGED << flagVars, tuneVars, aryVars, kllVars, now,
                              val >>]_vars
  /\ [][Ticked /\ ~tick'.attempt => UNCHANGED << queueVars, index >>]_vars
  /\ [][isEKG' # isEKG => PollMode /\ ~Ticked]_vars
  /\ [][isAlive' # isAlive => PollLife /\ ~Ticked]_vars

\* Both flags were inverted by presses; ticks have run since, the latest a
\* skipped one after one whose sample was dropped, and the flags stand.
C13_Witness ==
  /\ ~isEKG /\ ~isAlive
  /\ ~tick.attempt /\ xbyte = 1
  /\ call.op = "enqueue" /\ ~call.ret /\ call.arg = 65

(***************************************************************************)
(* SpecSurface: loop() reads the sticks (main.cpp:218-220) at any position *)
(* of the 12-bit range, both sticks at the same position.                  *)
(***************************************************************************)
ReadSticks ==
  /\ \E r \in 0 .. adcMax : controls(r, r, r)
  /\ UNCHANGED << queueVars, prodVars, flagVars, aryVars, kllVars, now,
                  loopVars, obsQueue, obsTick, run >>

NextSurface == ReadSticks

SpecSurface == InitProgram /\ [][NextSurface]_vars

\* C14: for every reading in 0 .. 4095 loop() computes a divisor in
\* 9 .. 48, a rate in 40 .. 220 and an amplitude percentage in 10 .. 100;
\* the reading 0 gives the lower and 4095 the upper end of each range, and
\* each result is at least the result for the next lower reading.  The
\* divisor TimerHandler0 reduces by is at least 1 in every state, the
\* initial one included.
C14_TunablesInRangeAndMonotone ==
  /\ delayMillis \in 9 .. 48
  /\ adc.read =>
       /\ amp \in 10 .. 100 /\ bpm \in 40 .. 220
       /\ adc.amp = 0 => amp = 10
       /\ adc.bpm = 0 => bpm = 40
       /\ adc.skip = 0 => delayMillis = 9
       /\ adc.amp = adcMax => amp = 100
       /\ adc.bpm = adcMax => bpm = 220
       /\ adc.skip = adcMax => delayMillis = 48
       /\ adc.amp > 0 => ampPercent(adc.amp - 1) <= amp
       /\ adc.bpm > 0 => rateOf(adc.bpm - 1) <= bpm
       /\ adc.skip > 0 => divisorOf(adc.skip - 1) <= delayMillis

\* The sticks were read one step below the upper end: every result is
\* still below the upper end of its range, which only 4095 reaches.
C14_Witness ==
  /\ adc.read /\ adc.amp = adcMax - 1 /\ adc.skip = adcMax - 1
  /\ amp = 99 /\ bpm = 219 /\ delayMillis = 47

(***************************************************************************)
(* Claims about single polls of the ARY tracker (SpecDebounce).            *)
(***************************************************************************)
\* This step is a poll of the tracker.
Polled == run'.polled
\* The poll accepts the level LOW, the level HIGH, as the stable state.
AcceptsLOW == buttonState = HIGH /\ buttonState' = LOW
AcceptsHIGH == buttonState = LOW /\ buttonState' = HIGH

\* C15: the flag is inverted only at a poll that changes the stable state
\* to LOW (and at every such poll); a poll that accepts HIGH, a poll that
\* accepts nothing and a poll that only resets the stability timer leave
\* the flag as it is.
C15_FlagInvertedOnAcceptedLowOnly ==
  /\ [][isEKG' # isEKG => (Polled /\ AcceptsLOW)]_vars
  /\ [][AcceptsLOW => isEKG' = ~isEKG]_vars
  /\ [][AcceptsHIGH => isEKG' = isEKG]_vars
  /\ [][(Polled /\ buttonState' = buttonState) => isEKG' = isEKG]_vars
  /\ [][(Polled /\ lastDebounceTime' # lastDebounceTime) =>
          isEKG' = isEKG]_vars

\* A press inverted the flag; the release that followed was then accepted
\* as the stable state HIGH and left the flag inverted.
C15_Witness ==
  /\ run.polled /\ run.level = HIGH /\ run.accepts = 1
  /\ buttonState = HIGH /\ run.toggles = 0
  /\ isEKG = FALSE

\* The reading the poll of this step took (every poll stores it, and the
\* run observed is the run of that reading).
readingTaken == run'.level

\* C16: a poll whose reading differs from lastButtonState sets
\* lastDebounceTime to the time of the poll and accepts nothing (neither
\* the stable state nor the flag changes in it); every poll ends with
\* lastButtonState equal to its reading.  So the stable state changes only
\* at a poll whose reading is the new state and has been read at every
\* poll of the more than debounceDelay milliseconds before, and a LOW
\* pulse polled for the debounce delay or less changes neither the stable
\* state nor the flag.
C16_ChangeRestartsWindow ==
  /\ [][Polled => lastButtonState' = readingTaken]_vars
  /\ [][(Polled /\ readingTaken # lastButtonState) =>
          /\ lastDebounceTime' = now
          /\ UNCHANGED << buttonState, isEKG >>]_vars
  /\ [][(Polled /\ readingTaken = lastButtonState) =>
          UNCHANGED lastDebounceTime]_vars
  /\ [][buttonState' # buttonState =>
          /\ Polled
          /\ buttonState' = readingTaken
          /\ readingTaken = lastButtonState
          /\ run'.t0 = run.t0
          /\ now' - run.t0 > debounceDelay]_vars
  /\ []((run.level = LOW /\ heldFor <= debounceDelay) =>
          /\ run.accepts = 0 /\ run.toggles = 0
          /\ buttonState = run.stableAtT0)

\* The stable state HIGH was accepted, then a LOW pulse shorter than the
\* window was polled and released; the reading has been HIGH for more than
\* the window since, and the stable state and the flag are as before the
\* pulse.
C16_Witness ==
  /\ run.polled /\ run.level = HIGH /\ run.edge
  /\ run.flips = 2 /\ run.stableAtT0 = HIGH /\ run.accepts = 0
  /\ heldFor > debounceDelay
  /\ buttonState = HIGH /\ isEKG = TRUE

(***************************************************************************)
(* Claims about the table index (SpecSelect: ticks while both buttons are  *)
(* pressed and released; nothing drains the queue, so it fills up).        *)
(***************************************************************************)
\* C17: the table has L = 32 entries and the index stays in 0 .. L - 1.
\* Every tick that is not skipped advances the index by one modulo L and
\* then reads the sample at the advanced index, whatever isAlive and isEKG
\* are and whether or not the enqueue is accepted: when the queue is full
\* the sample is dropped, the queue is left as it is and the index has
\* advanced all the same.  No other step changes the index: a toggle of a
\* flag does not reset it.
C17_IndexAdvancesOnEveryAttempt ==
  /\ [](sizeofEKG = 32 /\ index \in 0 .. sizeofEKG - 1)
  /\ [][(Ticked /\ tick'.attempt) =>
          /\ index' = IF index = sizeofEKG - 1 THEN 0 ELSE index + 1
          /\ call'.op = "enqueue"
          /\ call'.arg = At(selectTable, index')]_vars
  /\ [][(Ticked /\ tick'.attempt /\ itemCount = maxSize) =>
          /\ index' # index
          /\ ~call'.ret
          /\ UNCHANGED queueVars]_vars
  /\ [][(isEKG' # isEKG \/ isAlive' # isAlive) => UNCHANGED index]_vars
  /\ [][~Ticked => UNCHANGED index]_vars

\* The index went round the table to 0 while the queue was full and after
\* the patient had been switched to dead: the latest tick advanced it from
\* L - 1 and its sample was dropped.
C17_Witness ==
  /\ index = 0 /\ tick.attempt
  /\ call.op = "enqueue" /\ ~call.ret
  /\ itemCount = maxSize /\ ~isAlive

(***************************************************************************)
(* Claims about the main loop's isEmpty() and dequeue under preemption     *)
(* (Spec).                                                                 *)
(***************************************************************************)
\* C19: whenever isEmpty() has returned false, the dequeue the same
\* iteration calls next passes its guard and returns true, however many
\* ticks run between the two calls and inside dequeue: the ticks only add
\* to itemCount.  The main loop never makes a dequeue call that fails.
C19_DequeueAfterNonEmptySucceeds ==
  /\ [](pc = "deqGuard" => (reg > 0 /\ itemCount >= reg))
  /\ [][(pc = "deqGuard" /\ LoopStep) =>
          (pc' = "deqRead" /\ UNCHANGED call)]_vars
  /\ [][(pc = "deqStore" /\ LoopStep) =>
          /\ call' = [op |-> "dequeue", arg |-> 0, ret |-> TRUE]
          /\ Len(delivered') = Len(delivered) + 1]_vars
  /\ [](call.op = "dequeue" => call.ret)
  /\ [][(Ticked /\ pc \in {"deqGuard", "deqRead", "deqFront"}) =>
          itemCount' >= itemCount]_vars

\* isEmpty() returned false with one sample queued and ticks have since
\* added two more; dequeue is about to test its guard.
C19_Witness ==
  /\ pc = "deqGuard"
  /\ reg = 1 /\ itemCount = 3
  /\ tick.attempt

(***************************************************************************)
(* SpecLive: Spec with both contexts weakly fair.  loop() is called again  *)
(* and again and each of its statements completes; the timer is periodic   *)
(* (main.cpp:209), so the interrupt keeps firing, in the model until it    *)
(* has had MaxSamples samples accepted.                                    *)
(***************************************************************************)
Loop ==
  \/ LoopControls
  \/ LoopIsEmpty
  \/ LoopDequeueGuard
  \/ LoopDequeueRead
  \/ LoopDequeueFront
  \/ LoopDequeueLoad
  \/ LoopDequeueStore
  \/ LoopNotify
  \/ LoopPollARY
  \/ LoopPollKLL

SpecLive == Spec /\ WF_vars(Loop) /\ WF_vars(Interrupt)

\* The k-th accepted sample has been dequeued (as the k-th).
Delivered(k) == Len(delivered) >= k /\ delivered[k] = accepted[k]
\* The modelled ticks have ended with the k-th sample not yet dequeued.
TicksEnded(k) == Len(accepted) = MaxSamples /\ Len(delivered) < k

\* C18: with the main loop running on and ticks preempting it anywhere,
\* every sample whose enqueue was accepted is eventually dequeued (and
\* handed to notifyClients by the statement that follows): the k-th
\* accepted sample becomes the k-th delivered one.  Only runs in which the
\* ticks go on count: a sample that waits in the queue when the last
\* modelled tick has been accepted is not held against the claim.
C18_AcceptedEventuallyDelivered ==
  \A k \in 1 .. MaxSamples :
    (Len(accepted) >= k) ~> (Delivered(k) \/ TicksEnded(k))

(***************************************************************************)
(* Claims about ticks while the divisor is rewritten (SpecDecimate).       *)
(***************************************************************************)
\* C20: when the main loop rewrites delayMillis between ticks, to values
\* in 9 .. 48, the ticks in a row that make no enqueue attempt are never
\* more than 48, the largest divisor, whatever values are written.
C20_SkippedTicksBounded ==
  /\ largestDivisor = 48
  /\ tick.skipped <= largestDivisor

====
